---- MODULE Spec2Model ----
(***************************************************************************)
(* Open-addressing string maps of js2xxx/saha: the inline table            *)
(* (src/small.rs), the generic table (src/common.rs), the cached-hash      *)
(* table (src/large.rs) and the adaptive map that routes keys to them      *)
(* (src/adaptive.rs).                                                      *)
(*                                                                         *)
(* A table is [bucket |-> sequence of slots, len |-> occupancy counter].   *)
(* Slot j of the code (0-based) is bucket[j + 1].                          *)
(***************************************************************************)
EXTENDS Integers, Sequences, FiniteSets, TLC

VARIABLES
    focus,     \* which table type is driven: "small8", "common", "large" or "map"
    hasher,    \* the BuildHasher in use (a name of Hashers), fixed at construction
    none_key,  \* adaptive.rs StringMap.none_key: Option<T>
    tables,    \* engine id -> [bucket, len]
    ref,       \* the reference associative map driven by the same operations
    last,      \* the last public call: [op, ret]
    fatal,     \* "" or the panic the last call ended in
    ops,       \* number of mutating calls made so far
    hashed,    \* the last call of the adaptive map ran self.hasher.hash_one(key)
    yielded,   \* the pairs the consuming iterator gave, in order
    bytes,     \* the key handed to a KeyRef conversion
    keyref,    \* the KeyRef the last conversion built
    resized,   \* the resizes the last call made, in order: for each the table
               \* before and after and the number of hasher invocations
    probe      \* a probe loop in progress: build, word width, hash, len, i and
               \* the indices computed so far

vars == <<focus, hasher, none_key, tables, ref, last, fatal, ops, hashed, yielded,
          bytes, keyref, resized, probe>>

----------------------------------------------------------------------------
\* Bounds of the model

\* a run on one table makes at most MaxOps mutating calls (insert, try_insert,
\* remove); a run on the adaptive map at most MaxMapOps
MaxOps == 7
MaxMapOps == 3

\* with_capacity is called with cap in 0..MaxInitCap
MaxInitCap == 2

\* a long run on one table (two keys, one value) makes at most MaxDeepOps
\* inserts and removes: enough to take a table to capacity 32 and back
MaxDeepOps == 13

\* keys handed to the KeyRef conversions have 0..MaxKeyLen bytes
MaxKeyLen == 26

\* a map is built by at most MaxBuildOps inserts before it is consumed
MaxBuildOps == 6

\* a run on the table of common.rs with its allocator followed makes at most
\* MaxArenaOps mutating calls
MaxArenaOps == 6

\* a probed table has at most MaxProbeCap slots, and the hashes probed with
\* lie at most MaxProbeCap from either end of the 64-bit range
MaxProbeCap == 8

\* a run on the direct-indexed table makes at most MaxArrayOps mutating calls
MaxArrayOps == 5

\* a run that fills a table with entries and tombstones makes at most
\* MaxChurnOps inserts and removes: enough to leave no Empty slot among 4
MaxChurnOps == 10

----------------------------------------------------------------------------
\* Program constants

LOAD_FACTOR_N == 3
LOAD_FACTOR_D == 2
SMALL_MIN_CAPACITY == 8
COMMON_MIN_CAPACITY == 8
LARGE_MIN_CAPACITY == 4

\* Option::None of a value, and of a slot pointer
NoVal == 0
NoSlot == -1
\* hash(): None of a SlotData that caches no hash
NoHash == -1
NoProbe == <<>>

Values == {1, 2}

SmallIds == {"small8", "small16", "small24"}
EngineIds == SmallIds \cup {"large", "common"}

\* const N of SmallStringMap<T, N> as instantiated by the adaptive map
BufSize(e) == CASE e = "small8" -> 8 [] e = "small16" -> 16 [] e = "small24" -> 24

MIN_CAPACITY(e) ==
    CASE e \in SmallIds -> SMALL_MIN_CAPACITY
      [] e = "common" -> COMMON_MIN_CAPACITY
      [] e = "large" -> LARGE_MIN_CAPACITY

----------------------------------------------------------------------------
\* Keys and hashers

RECURSIVE SumBytes(_)
SumBytes(s) == IF s = <<>> THEN 0 ELSE Head(s) + SumBytes(Tail(s))

RECURSIVE Zeros(_)
Zeros(n) == IF n = 0 THEN <<>> ELSE <<0>> \o Zeros(n - 1)

\* keys given to one table directly (any bytes: the tables take &[u8])
K1 == <<1>>
K1Z == <<1>> \o Zeros(7)
K2 == <<2>>
EngineKeys == {K1, K1Z, K2}

Hashers == {"spread", "const"}

\* BuildHasher::hash_one: a deterministic function of the key's bytes
hash_one(h, key) ==
    CASE h = "spread" -> SumBytes(key) + 8 * Len(key)
      [] h = "const" -> 5

----------------------------------------------------------------------------
\* Slots

EmptySlot == [tag |-> "Empty"]
DeletedSlot == [tag |-> "Deleted"]

\* the bytes a Data slot holds as its key: &data.key[..data.len] / data.key()
StoredKey(d) == SubSeq(d.key, 1, d.klen)

\* SlotData built by insert / try_insert
NewData(e, key, hash, value) ==
    IF e \in SmallIds
    THEN [tag |-> "Data", key |-> key \o Zeros(BufSize(e) - Len(key)),
          klen |-> Len(key), hash |-> NoHash, value |-> value]
    ELSE [tag |-> "Data", key |-> key, klen |-> Len(key), hash |-> hash,
          value |-> value]

\* the probe advancing two slots per step
ProbeIndexStride2(hash, i, len) == (hash + 2 * i) % len

\* ((hash as usize) + i) % len
ProbeIndex(hash, i, len) == (hash + i) % len

\* the loop of lookup running on without the bound of 0..len: it ends at an
\* Empty slot or a match alone (steps above 2 * len stand for a loop still
\* running)
RECURSIVE LookupFromUntilEmpty(_, _, _, _)
LookupFromUntilEmpty(bucket, key, hash, i) ==
    IF i > 2 * Len(bucket) \/ Len(bucket) = 0 THEN [slot |-> NoSlot, steps |-> i]
    ELSE LET j == ProbeIndex(hash, i, Len(bucket))
             slot == bucket[j + 1]
         IN IF slot.tag = "Empty" THEN [slot |-> NoSlot, steps |-> i + 1]
            ELSE IF slot.tag = "Data" /\ StoredKey(slot) = key
            THEN [slot |-> j, steps |-> i + 1]
            ELSE LookupFromUntilEmpty(bucket, key, hash, i + 1)

\* the loop of lookup from step i on: the slot found (NoSlot for None) and the
\* number of slots looked at
RECURSIVE LookupFrom(_, _, _, _)
LookupFrom(bucket, key, hash, i) ==
    IF i >= Len(bucket) THEN [slot |-> NoSlot, steps |-> i]
    ELSE LET j == ProbeIndex(hash, i, Len(bucket))
             slot == bucket[j + 1]
         IN IF slot.tag = "Empty" THEN [slot |-> NoSlot, steps |-> i + 1]
            ELSE IF slot.tag = "Data" /\ StoredKey(slot) = key
            THEN [slot |-> j, steps |-> i + 1]
            ELSE LookupFrom(bucket, key, hash, i + 1)

lookup(bucket, key, hash) == LookupFrom(bucket, key, hash, 0).slot

\* the loop of lookup_or_free from step i on
RECURSIVE LookupOrFreeFrom(_, _, _, _)
LookupOrFreeFrom(bucket, key, hash, i) ==
    IF i >= Len(bucket) THEN [slot |-> NoSlot, steps |-> i]
    ELSE LET j == ProbeIndex(hash, i, Len(bucket))
             slot == bucket[j + 1]
         IN IF slot.tag \in {"Empty", "Deleted"} THEN [slot |-> j, steps |-> i + 1]
            ELSE IF slot.tag = "Data" /\ StoredKey(slot) = key
            THEN [slot |-> j, steps |-> i + 1]
            ELSE LookupOrFreeFrom(bucket, key, hash, i + 1)

\* the probe passing over Deleted slots as lookup does: it stops at the first
\* Empty slot or matching Data slot
lookup_or_free_past_deleted(bucket, key, hash) ==
    LET stops == {i \in 0..(Len(bucket) - 1) :
                    LET slot == bucket[ProbeIndex(hash, i, Len(bucket)) + 1]
                    IN \/ slot.tag = "Empty"
                       \/ slot.tag = "Data" /\ StoredKey(slot) = key}
    IN IF stops = {} THEN NoSlot
       ELSE ProbeIndex(hash, CHOOSE i \in stops : \A m \in stops : i <= m, Len(bucket))

lookup_or_free(bucket, key, hash) == LookupOrFreeFrom(bucket, key, hash, 0).slot

----------------------------------------------------------------------------
\* Construction and resize

EmptyBucket(n) == [i \in 1..n |-> EmptySlot]

with_capacity(cap) == [bucket |-> EmptyBucket(cap), len |-> 0]

new(e) == with_capacity(MIN_CAPACITY(e))

\* common.rs, StringMap::new(key_alloc): the table keeps the allocator it is
\* given; key_alloc stands for the chunks that allocator has handed out, in
\* order (the field is left out of a table whose allocator is not followed)
new_in(key_alloc) ==
    [bucket |-> EmptyBucket(COMMON_MIN_CAPACITY), len |-> 0, key_alloc |-> key_alloc]

\* D::new(self.key_alloc, key, hash, value) of the arena strategy: the key is
\* copied once into the allocator, which hands out a new chunk for it
SlotData_new(e, t, key) ==
    IF e = "common" /\ "key_alloc" \in DOMAIN t
    THEN [t EXCEPT !.key_alloc = Append(@, key)]
    ELSE t

\* the key resize probes with: the whole buffer in small.rs, the key elsewhere
ResizeKey(e, d) == IF e \in SmallIds THEN d.key ELSE StoredKey(d)

\* resize hashing the bytes it probes with, the whole buffer in small.rs
ResizeHashOfBuffer(e, d) == hash_one(hasher, ResizeKey(e, d))

\* the hash resize probes with: recomputed in small.rs, cached in large.rs,
\* cached-or-recomputed in common.rs
ResizeHash(e, d) ==
    IF e \in SmallIds THEN hash_one(hasher, StoredKey(d))
    ELSE IF d.hash # NoHash THEN d.hash
    ELSE hash_one(hasher, StoredKey(d))

\* resize running the hasher on every entry it moves, as small.rs does
ResizeHashCallsAlways(e, d) == 1

\* the hasher invocations resize makes for one entry: hasher.hash_one(..) in
\* small.rs, none in large.rs (data.hash), that of unwrap_or_else in common.rs
ResizeHashCalls(e, d) ==
    IF e \in SmallIds THEN 1
    ELSE IF d.hash # NoHash THEN 0
    ELSE 1

\* the loop of resize from item i of the old bucket on; hashed: the hasher
\* invocations made so far
RECURSIVE ResizeFrom(_, _, _, _, _)
ResizeFrom(e, old, bucket, i, hashed_n) ==
    IF i > Len(old) THEN [bucket |-> bucket, fatal |-> "", hashed |-> hashed_n]
    ELSE IF old[i].tag # "Data" THEN ResizeFrom(e, old, bucket, i + 1, hashed_n)
    ELSE LET j == lookup_or_free(bucket, ResizeKey(e, old[i]), ResizeHash(e, old[i]))
             n == hashed_n + ResizeHashCalls(e, old[i])
         IN IF j = NoSlot
            THEN [bucket |-> bucket, fatal |-> "resize: unwrap on None", hashed |-> n]
            ELSE ResizeFrom(e, old, [bucket EXCEPT ![j + 1] = old[i]], i + 1, n)

\* resize(new_len): [t |-> the table after, fatal |-> "" or the panic,
\* rs |-> the record of this resize]
resize(e, t, new_len) ==
    LET r == ResizeFrom(e, t.bucket, EmptyBucket(new_len), 1, 0)
        after == [t EXCEPT !.bucket = r.bucket]
    IN [t |-> after, fatal |-> r.fatal,
        rs |-> <<[before |-> t, after |-> after, hashed |-> r.hashed]>>]

\* the growth check with > in place of >=
GrowCheckStrict(e, t) ==
    IF (t.len * LOAD_FACTOR_N) \div LOAD_FACTOR_D > Len(t.bucket)
    THEN resize(e, t, Len(t.bucket) * 2)
    ELSE [t |-> t, fatal |-> "", rs |-> <<>>]

\* the growth check that follows a stored entry
GrowCheck(e, t) ==
    IF (t.len * LOAD_FACTOR_N) \div LOAD_FACTOR_D >= Len(t.bucket)
    THEN resize(e, t, Len(t.bucket) * 2)
    ELSE [t |-> t, fatal |-> "", rs |-> <<>>]

\* the shrink check that follows a removal
ShrinkCheck(e, t) ==
    IF t.len > MIN_CAPACITY(e)
       /\ (t.len * LOAD_FACTOR_N) \div LOAD_FACTOR_D <= Len(t.bucket) \div 2
    THEN resize(e, t, Len(t.bucket) \div 2)
    ELSE [t |-> t, fatal |-> "", rs |-> <<>>]

----------------------------------------------------------------------------
\* Operations of one table: each gives [t, ret, fatal, rs]

get(e, t, key, hash) ==
    LET j == lookup(t.bucket, key, hash)
    IN [t |-> t,
        ret |-> IF j = NoSlot THEN NoVal ELSE t.bucket[j + 1].value,
        fatal |-> "", rs |-> <<>>]

\* get_mut taking the slot's data out (Slot::remove) instead of borrowing it
get_mut_taking(e, t, key, hash) ==
    LET j == lookup(t.bucket, key, hash)
    IN [t |-> IF j = NoSlot THEN t
              ELSE [t EXCEPT !.bucket = [t.bucket EXCEPT ![j + 1] = DeletedSlot]],
        ret |-> IF j = NoSlot THEN NoVal ELSE t.bucket[j + 1].value,
        fatal |-> "", rs |-> <<>>]

get_mut(e, t, key, hash) ==
    LET j == lookup(t.bucket, key, hash)
    IN [t |-> t,
        ret |-> IF j = NoSlot THEN NoVal ELSE t.bucket[j + 1].value,
        fatal |-> "", rs |-> <<>>]

insert(e, t, key, hash, value) ==
    LET j == lookup_or_free(t.bucket, key, hash)
    IN IF j = NoSlot
       THEN [t |-> t, ret |-> NoVal, fatal |-> "Failed to lookup slot", rs |-> <<>>]
       ELSE LET old == t.bucket[j + 1]
                t1 == [SlotData_new(e, t, key) EXCEPT
                          !.bucket = [t.bucket EXCEPT ![j + 1] = NewData(e, key, hash, value)],
                          !.len = t.len + 1]
                g == GrowCheck(e, t1)
            IN [t |-> g.t,
                ret |-> IF old.tag = "Data" THEN old.value ELSE NoVal,
                fatal |-> g.fatal, rs |-> g.rs]

\* small.rs and common.rs
try_insert_once(e, t, key, hash, value) ==
    LET j == lookup_or_free(t.bucket, key, hash)
    IN IF j = NoSlot
       THEN [t |-> t, ret |-> NoVal, fatal |-> "Failed to lookup slot", rs |-> <<>>]
       ELSE IF t.bucket[j + 1].tag = "Data"
       THEN [t |-> t, ret |-> t.bucket[j + 1].value, fatal |-> "", rs |-> <<>>]
       ELSE LET t1 == [SlotData_new(e, t, key) EXCEPT
                          !.bucket = [t.bucket EXCEPT ![j + 1] = NewData(e, key, hash, value)],
                          !.len = t.len + 1]
                g == GrowCheck(e, t1)
            IN [t |-> g.t, ret |-> NoVal, fatal |-> g.fatal, rs |-> g.rs]

\* large.rs: a failed probe doubles the table and tries once more
RECURSIVE try_insert_trial(_, _, _, _, _, _)
try_insert_trial(e, t, key, hash, value, trial) ==
    IF trial > 1
    THEN [t |-> t, ret |-> NoVal,
          fatal |-> "unreachable: Failed to insert new key-value pair into the map",
          rs |-> <<>>]
    ELSE LET j == lookup_or_free(t.bucket, key, hash)
         IN IF j = NoSlot
            THEN LET r == resize(e, t, Len(t.bucket) * 2)
                     again == try_insert_trial(e, r.t, key, hash, value, trial + 1)
                 IN IF r.fatal # ""
                    THEN [t |-> r.t, ret |-> NoVal, fatal |-> r.fatal, rs |-> r.rs]
                    ELSE [again EXCEPT !.rs = r.rs \o again.rs]
            ELSE try_insert_once(e, t, key, hash, value)

try_insert(e, t, key, hash, value) ==
    IF e = "large" THEN try_insert_trial(e, t, key, hash, value, 0)
    ELSE try_insert_once(e, t, key, hash, value)

\* remove leaving the slot Empty instead of Deleted
remove_emptying(e, t, key, hash) ==
    LET j == lookup(t.bucket, key, hash)
    IN IF j = NoSlot THEN [t |-> t, ret |-> NoVal, fatal |-> "", rs |-> <<>>]
       ELSE LET data == t.bucket[j + 1]
                t1 == [t EXCEPT !.bucket = [t.bucket EXCEPT ![j + 1] = EmptySlot],
                                !.len = t.len - 1]
                s == ShrinkCheck(e, t1)
            IN [t |-> s.t, ret |-> data.value, fatal |-> s.fatal, rs |-> s.rs]

\* remove running the shrink check before it marks the slot Deleted
remove_marking_late(e, t, key, hash) ==
    LET j == lookup(t.bucket, key, hash)
    IN IF j = NoSlot THEN [t |-> t, ret |-> NoVal, fatal |-> "", rs |-> <<>>]
       ELSE LET data == t.bucket[j + 1]
                s == ShrinkCheck(e, [t EXCEPT !.len = t.len - 1])
                j2 == lookup(s.t.bucket, key, hash)
            IN [t |-> [s.t EXCEPT !.bucket = [s.t.bucket EXCEPT ![j2 + 1] = DeletedSlot]],
                ret |-> data.value, fatal |-> s.fatal, rs |-> s.rs]

\* remove probing with lookup_or_free instead of lookup: Slot::remove then turns
\* the free slot it is given into a Deleted one before returning None
remove_or_free(e, t, key, hash) ==
    LET j == lookup_or_free(t.bucket, key, hash)
    IN IF j = NoSlot THEN [t |-> t, ret |-> NoVal, fatal |-> "", rs |-> <<>>]
       ELSE IF t.bucket[j + 1].tag # "Data"
       THEN [t |-> [t EXCEPT !.bucket = [t.bucket EXCEPT ![j + 1] = DeletedSlot]],
             ret |-> NoVal, fatal |-> "", rs |-> <<>>]
       ELSE LET data == t.bucket[j + 1]
                t1 == [t EXCEPT !.bucket = [t.bucket EXCEPT ![j + 1] = DeletedSlot],
                                !.len = t.len - 1]
                s == ShrinkCheck(e, t1)
            IN [t |-> s.t, ret |-> data.value, fatal |-> s.fatal, rs |-> s.rs]

\* remove lowering len also when the key is not found
remove_counting_misses(e, t, key, hash) ==
    LET j == lookup(t.bucket, key, hash)
    IN IF j = NoSlot
       THEN [t |-> [t EXCEPT !.len = t.len - 1], ret |-> NoVal, fatal |-> "", rs |-> <<>>]
       ELSE LET data == t.bucket[j + 1]
                t1 == [t EXCEPT !.bucket = [t.bucket EXCEPT ![j + 1] = DeletedSlot],
                                !.len = t.len - 1]
                s == ShrinkCheck(e, t1)
            IN [t |-> s.t, ret |-> data.value, fatal |-> s.fatal, rs |-> s.rs]

remove(e, t, key, hash) ==
    LET j == lookup(t.bucket, key, hash)
    IN IF j = NoSlot THEN [t |-> t, ret |-> NoVal, fatal |-> "", rs |-> <<>>]
       ELSE LET data == t.bucket[j + 1]
                t1 == [t EXCEPT !.bucket = [t.bucket EXCEPT ![j + 1] = DeletedSlot],
                                !.len = t.len - 1]
                s == ShrinkCheck(e, t1)
            IN [t |-> s.t, ret |-> data.value, fatal |-> s.fatal, rs |-> s.rs]

\* iter(): the pairs yielded, in slot order, at most len of them
RECURSIVE IterFrom(_, _, _)
IterFrom(bucket, i, rem) ==
    IF rem = 0 \/ i > Len(bucket) THEN <<>>
    ELSE IF bucket[i].tag = "Data"
    THEN <<<<StoredKey(bucket[i]), bucket[i].value>>>> \o IterFrom(bucket, i + 1, rem - 1)
    ELSE IterFrom(bucket, i + 1, rem)

\* iter() counting down rem for every slot it looks at
iter_counting_slots(t) ==
    IterFrom(SubSeq(t.bucket, 1, IF t.len < Len(t.bucket) THEN t.len ELSE Len(t.bucket)),
             1, t.len)

iter(t) == IterFrom(t.bucket, 1, t.len)

----------------------------------------------------------------------------
\* The reference map: key -> value or NoVal

RefEmpty(keys) == [k \in keys |-> NoVal]
RefInsert(r, k, v) == [r EXCEPT ![k] = v]
RefTryInsert(r, k, v) == IF r[k] = NoVal THEN [r EXCEPT ![k] = v] ELSE r
RefRemove(r, k) == [r EXCEPT ![k] = NoVal]
RefPairs(r) == {<<k, r[k]>> : k \in {x \in DOMAIN r : r[x] # NoVal}}

----------------------------------------------------------------------------
\* The adaptive map (adaptive.rs): each operation gives
\* [none_key, tables, ret, fatal, rs]

\* From<&[NonZeroU8]> for KeyRef: the class of a key, by its length
Classify(key) ==
    IF Len(key) = 0 THEN "none"
    ELSE IF Len(key) <= 8 THEN "small8"
    ELSE IF Len(key) <= 16 THEN "small16"
    ELSE IF Len(key) <= 24 THEN "small24"
    ELSE "large"

\* KeyRef::None carries no bytes; the other variants carry the key's bytes
NoneRef == [tag |-> "None"]

\* From<&[NonZeroU8]> with <= 8 read as < 8
from_slice_strict(key) ==
    LET len == Len(key)
    IN IF key = <<>> THEN NoneRef
       ELSE IF len < 8 THEN [tag |-> "S8", key |-> key]
       ELSE IF len <= 16 THEN [tag |-> "S16", key |-> key]
       ELSE IF len <= 24 THEN [tag |-> "S24", key |-> key]
       ELSE [tag |-> "Large", key |-> key]

\* From<&[NonZeroU8]> for KeyRef (a NonZeroU8 is transmuted to the u8 of the
\* same value)
from_slice(key) ==
    LET len == Len(key)
    IN IF key = <<>> THEN NoneRef
       ELSE IF len <= 8 THEN [tag |-> "S8", key |-> key]
       ELSE IF len <= 16 THEN [tag |-> "S16", key |-> key]
       ELSE IF len <= 24 THEN [tag |-> "S24", key |-> key]
       ELSE [tag |-> "Large", key |-> key]

\* From<&[NonZeroU8; N]> for KeyRef: N is the array's length
from_array(key) ==
    LET N == Len(key)
    IN IF key = <<>> THEN NoneRef
       ELSE IF N <= 8 THEN [tag |-> "S8", key |-> key]
       ELSE IF N <= 16 THEN [tag |-> "S16", key |-> key]
       ELSE IF N <= 24 THEN [tag |-> "S24", key |-> key]
       ELSE [tag |-> "Large", key |-> key]

\* KeyRef::key
KeyRef_key(kr) == IF kr.tag = "None" THEN <<>> ELSE kr.key

\* Hash for [u8]: what a byte slice writes into a Hasher, the length prefix
\* and then the bytes
SliceFeed(s) == <<Len(s)>> \o s

\* Hash for KeyRef as #[derive(Hash)] would write it: the variant's
\* discriminant before the slice
KeyRef_hash_derived(kr) ==
    CASE kr.tag = "None" -> <<0>>
      [] kr.tag = "S8" -> <<1>> \o SliceFeed(kr.key)
      [] kr.tag = "S16" -> <<2>> \o SliceFeed(kr.key)
      [] kr.tag = "S24" -> <<3>> \o SliceFeed(kr.key)
      [] kr.tag = "Large" -> <<4>> \o SliceFeed(kr.key)

\* impl Hash for KeyRef: what a KeyRef writes into a Hasher
KeyRef_hash(kr) == IF kr.tag = "None" THEN SliceFeed(<<>>) ELSE SliceFeed(kr.key)

\* Hasher::finish of hasher h after the writes of feed
finish(h, feed) ==
    CASE h = "spread" -> SumBytes(Tail(feed)) + 8 * Head(feed)
      [] h = "const" -> 5

\* self.hasher.hash_one(key) for key: KeyRef
hash_one_keyref(h, kr) == finish(h, KeyRef_hash(kr))

\* the result of one table's operation, put back into the map
Routed(nk, tbl, e, r) ==
    [none_key |-> nk, tables |-> [tbl EXCEPT ![e] = r.t], ret |-> r.ret,
     fatal |-> r.fatal, rs |-> r.rs]

get_hashed(nk, tbl, key, hash) ==
    LET e == Classify(key)
    IN IF e = "none" THEN [none_key |-> nk, tables |-> tbl, ret |-> nk, fatal |-> "",
             rs |-> <<>>]
       ELSE Routed(nk, tbl, e, get(e, tbl[e], key, hash))

get_mut_hashed(nk, tbl, key, hash) ==
    LET e == Classify(key)
    IN IF e = "none" THEN [none_key |-> nk, tables |-> tbl, ret |-> nk, fatal |-> "",
             rs |-> <<>>]
       ELSE Routed(nk, tbl, e, get_mut(e, tbl[e], key, hash))

\* insert_hashed without the arm for KeyRef::None: the empty key goes to the
\* S8 table
insert_hashed_no_none(nk, tbl, key, hash, value) ==
    LET e == IF Classify(key) = "none" THEN "small8" ELSE Classify(key)
    IN Routed(nk, tbl, e, insert(e, tbl[e], key, hash, value))

insert_hashed(nk, tbl, key, hash, value) ==
    LET e == Classify(key)
    IN IF e = "none" THEN [none_key |-> value, tables |-> tbl, ret |-> nk, fatal |-> "",
             rs |-> <<>>]
       ELSE Routed(nk, tbl, e, insert(e, tbl[e], key, hash, value))

try_insert_hashed(nk, tbl, key, hash, value) ==
    LET e == Classify(key)
    IN IF e = "none"
       THEN IF nk # NoVal THEN [none_key |-> nk, tables |-> tbl, ret |-> nk, fatal |-> "",
             rs |-> <<>>]
            ELSE [none_key |-> value, tables |-> tbl, ret |-> NoVal, fatal |-> "",
             rs |-> <<>>]
       ELSE Routed(nk, tbl, e, try_insert(e, tbl[e], key, hash, value))

\* remove_hashed taking the empty key's value out on every call
\* (self.none_key.take() ahead of the match)
remove_hashed_taking_none(nk, tbl, key, hash) ==
    LET e == Classify(key)
    IN IF e = "none" THEN [none_key |-> NoVal, tables |-> tbl, ret |-> nk, fatal |-> "",
             rs |-> <<>>]
       ELSE Routed(NoVal, tbl, e, remove(e, tbl[e], key, hash))

remove_hashed(nk, tbl, key, hash) ==
    LET e == Classify(key)
    IN IF e = "none" THEN [none_key |-> NoVal, tables |-> tbl, ret |-> nk, fatal |-> "",
             rs |-> <<>>]
       ELSE Routed(nk, tbl, e, remove(e, tbl[e], key, hash))

\* the entry points that take no hash: op(key, ..) is
\* op_hashed(key, self.hasher.hash_one(key), ..), the hash being that of the
\* KeyRef built from the key
map_get(nk, tbl, key) ==
    get_hashed(nk, tbl, key, hash_one_keyref(hasher, from_slice(key)))

map_get_mut(nk, tbl, key) ==
    get_mut_hashed(nk, tbl, key, hash_one_keyref(hasher, from_slice(key)))

map_insert(nk, tbl, key, value) ==
    insert_hashed(nk, tbl, key, hash_one_keyref(hasher, from_slice(key)), value)

map_try_insert(nk, tbl, key, value) ==
    try_insert_hashed(nk, tbl, key, hash_one_keyref(hasher, from_slice(key)), value)

\* remove hashing the KeyRef as #[derive(Hash)] would
map_remove_derived(nk, tbl, key) ==
    remove_hashed(nk, tbl, key, finish(hasher, KeyRef_hash_derived(from_slice(key))))

map_remove(nk, tbl, key) ==
    remove_hashed(nk, tbl, key, hash_one_keyref(hasher, from_slice(key)))

\* len() and is_empty() of one table
table_len(t) == t.len
is_empty(t) == t.len = 0

\* iter_mut() and into_iter() of one table walk the bucket as iter() does,
\* with rem = len
iter_mut(t) == IterFrom(t.bucket, 1, t.len)
into_iter(t) == IterFrom(t.bucket, 1, t.len)

\* StringMap::len and is_empty of the adaptive map
map_len(nk, tbl) ==
    (IF nk # NoVal THEN 1 ELSE 0)
        + table_len(tbl["small8"]) + table_len(tbl["small16"])
        + table_len(tbl["small24"]) + table_len(tbl["large"])

map_is_empty(nk, tbl) ==
    /\ nk = NoVal
    /\ is_empty(tbl["small8"]) /\ is_empty(tbl["small16"])
    /\ is_empty(tbl["small24"]) /\ is_empty(tbl["large"])

\* .map(|(key, value)| (KeyRef::X(key), value)) over one table's pairs
Tagged(tag, pairs) ==
    [n \in 1..Len(pairs) |->
        [keyref |-> [tag |-> tag, key |-> pairs[n][1]], value |-> pairs[n][2]]]

\* self.none_key.iter().map(|value| (KeyRef::None, value))
NoneItem(nk) == IF nk = NoVal THEN <<>> ELSE <<[keyref |-> NoneRef, value |-> nk]>>

\* iter() chaining the large table before the S24 table
map_iter_large_first(nk, tbl) ==
    NoneItem(nk)
        \o Tagged("S8", iter(tbl["small8"]))
        \o Tagged("S16", iter(tbl["small16"]))
        \o Tagged("Large", iter(tbl["large"]))
        \o Tagged("S24", iter(tbl["small24"]))

\* StringMap::iter of the adaptive map: the items in the order given
map_iter(nk, tbl) ==
    NoneItem(nk)
        \o Tagged("S8", iter(tbl["small8"]))
        \o Tagged("S16", iter(tbl["small16"]))
        \o Tagged("S24", iter(tbl["small24"]))
        \o Tagged("Large", iter(tbl["large"]))

map_iter_mut(nk, tbl) ==
    NoneItem(nk)
        \o Tagged("S8", iter_mut(tbl["small8"]))
        \o Tagged("S16", iter_mut(tbl["small16"]))
        \o Tagged("S24", iter_mut(tbl["small24"]))
        \o Tagged("Large", iter_mut(tbl["large"]))

\* into_iter() leaving out the empty-key pair
map_into_iter_tables_only(nk, tbl) ==
    into_iter(tbl["small8"])
        \o into_iter(tbl["small16"])
        \o into_iter(tbl["small24"])
        \o into_iter(tbl["large"])

\* IntoIterator for StringMap: the (Vec<u8>, T) pairs in the order given
map_into_iter(nk, tbl) ==
    (IF nk = NoVal THEN <<>> ELSE << <<(<<>>), nk>> >>)
        \o into_iter(tbl["small8"])
        \o into_iter(tbl["small16"])
        \o into_iter(tbl["small24"])
        \o into_iter(tbl["large"])

----------------------------------------------------------------------------
\* One table driven directly (Spec, SpecCap)

FocusIds == {"small8", "common", "large"}

\* the driven table
T == tables[focus]

\* the hash the caller passes for key k: that of the map's hasher
H(k) == hash_one(hasher, k)

Init ==
    /\ focus \in FocusIds
    /\ hasher \in Hashers
    /\ none_key = NoVal
    /\ tables = [e \in EngineIds |-> new(e)]
    /\ ref = RefEmpty(EngineKeys)
    /\ last = [op |-> "new", ret |-> NoVal]
    /\ fatal = ""
    /\ ops = 0
    /\ hashed = FALSE
    /\ yielded = <<>>
    /\ bytes = <<>>
    /\ keyref = NoneRef
    /\ resized = <<>>
    /\ probe = NoProbe

\* a mutating call on the driven table
Apply(op, r, newref) ==
    /\ fatal = "" /\ focus \in FocusIds /\ ops < MaxOps
    /\ tables' = [tables EXCEPT ![focus] = r.t]
    /\ fatal' = r.fatal
    /\ last' = [op |-> op, ret |-> r.ret]
    /\ ref' = IF r.fatal = "" THEN newref ELSE ref
    /\ ops' = ops + 1
    /\ resized' = r.rs
    /\ UNCHANGED <<probe, focus, hasher, none_key, hashed, yielded, bytes, keyref>>

\* a read-only call on the driven table
Read(op, r) ==
    /\ fatal = "" /\ focus \in FocusIds
    /\ tables' = [tables EXCEPT ![focus] = r.t]
    /\ fatal' = r.fatal
    /\ last' = [op |-> op, ret |-> r.ret]
    /\ resized' = r.rs
    /\ UNCHANGED <<probe, focus, hasher, none_key, ref, ops, hashed, yielded, bytes, keyref>>

Insert(k, v) == Apply("insert", insert(focus, T, k, H(k), v), RefInsert(ref, k, v))

TryInsert(k, v) ==
    Apply("try_insert", try_insert(focus, T, k, H(k), v), RefTryInsert(ref, k, v))

Remove(k) == Apply("remove", remove(focus, T, k, H(k)), RefRemove(ref, k))

Get(k) == Read("get", get(focus, T, k, H(k)))

GetMut(k) == Read("get_mut", get_mut(focus, T, k, H(k)))

Next ==
    \/ \E k \in EngineKeys, v \in Values : Insert(k, v)
    \/ \E k \in EngineKeys, v \in Values : TryInsert(k, v)
    \/ \E k \in EngineKeys : Remove(k)
    \/ \E k \in EngineKeys : Get(k)
    \/ \E k \in EngineKeys : GetMut(k)

Spec == Init /\ [][Next]_vars

----------------------------------------------------------------------------
\* The adaptive map driven through its public operations (SpecMap)

\* keys of NonZeroU8 bytes, of every class
RECURSIVE Ones(_)
Ones(n) == IF n = 0 THEN <<>> ELSE <<1>> \o Ones(n - 1)

MapKeys == {<<>>, <<1>>, <<2>>, Ones(9), Ones(17), Ones(25)}

InitMap ==
    /\ focus = "map"
    /\ hasher \in Hashers
    /\ none_key = NoVal
    /\ tables = [e \in EngineIds |-> new(e)]
    /\ ref = RefEmpty(MapKeys)
    /\ last = [op |-> "new", ret |-> NoVal]
    /\ fatal = ""
    /\ ops = 0
    /\ hashed = FALSE
    /\ yielded = <<>>
    /\ bytes = <<>>
    /\ keyref = NoneRef
    /\ resized = <<>>
    /\ probe = NoProbe

\* a mutating call on the map; h: the entry point hashed the key itself
MapApply(op, r, newref, h) ==
    /\ fatal = "" /\ focus = "map" /\ ops < MaxMapOps
    /\ hashed' = h
    /\ none_key' = r.none_key
    /\ tables' = r.tables
    /\ fatal' = r.fatal
    /\ last' = [op |-> op, ret |-> r.ret]
    /\ ref' = IF r.fatal = "" THEN newref ELSE ref
    /\ ops' = ops + 1
    /\ resized' = r.rs
    /\ UNCHANGED <<probe, focus, hasher, yielded, bytes, keyref>>

\* a read-only call on the map; h: the entry point hashed the key itself
MapRead(op, r, h) ==
    /\ fatal = "" /\ focus = "map"
    /\ hashed' = h
    /\ none_key' = r.none_key
    /\ tables' = r.tables
    /\ fatal' = r.fatal
    /\ last' = [op |-> op, ret |-> r.ret]
    /\ resized' = r.rs
    /\ UNCHANGED <<probe, focus, hasher, ref, ops, yielded, bytes, keyref>>

\* the entry points that hash the key: op(key, ..) is
\* op_hashed(key, self.hasher.hash_one(key), ..)
MapInsert(k, v) ==
    MapApply("insert", map_insert(none_key, tables, k, v),
             RefInsert(ref, k, v), TRUE)

MapTryInsert(k, v) ==
    MapApply("try_insert", map_try_insert(none_key, tables, k, v),
             RefTryInsert(ref, k, v), TRUE)

MapRemove(k) ==
    MapApply("remove", map_remove(none_key, tables, k), RefRemove(ref, k), TRUE)

MapGet(k) == MapRead("get", map_get(none_key, tables, k), TRUE)

MapGetMut(k) == MapRead("get_mut", map_get_mut(none_key, tables, k), TRUE)

\* the hash-accepting entry points, given the hash of the key by the caller
MapInsertHashed(k, v) ==
    MapApply("insert_hashed", insert_hashed(none_key, tables, k, H(k), v),
             RefInsert(ref, k, v), FALSE)

MapTryInsertHashed(k, v) ==
    MapApply("try_insert_hashed", try_insert_hashed(none_key, tables, k, H(k), v),
             RefTryInsert(ref, k, v), FALSE)

MapRemoveHashed(k) ==
    MapApply("remove_hashed", remove_hashed(none_key, tables, k, H(k)),
             RefRemove(ref, k), FALSE)

MapGetHashed(k) == MapRead("get_hashed", get_hashed(none_key, tables, k, H(k)), FALSE)

MapGetMutHashed(k) ==
    MapRead("get_mut_hashed", get_mut_hashed(none_key, tables, k, H(k)), FALSE)

NextMap ==
    \/ \E k \in MapKeys, v \in Values : MapInsert(k, v)
    \/ \E k \in MapKeys, v \in Values : MapTryInsert(k, v)
    \/ \E k \in MapKeys : MapRemove(k)
    \/ \E k \in MapKeys : MapGet(k)
    \/ \E k \in MapKeys : MapGetMut(k)
    \/ \E k \in MapKeys, v \in Values : MapInsertHashed(k, v)
    \/ \E k \in MapKeys, v \in Values : MapTryInsertHashed(k, v)
    \/ \E k \in MapKeys : MapRemoveHashed(k)
    \/ \E k \in MapKeys : MapGetHashed(k)
    \/ \E k \in MapKeys : MapGetMutHashed(k)

SpecMap == InitMap /\ [][NextMap]_vars

----------------------------------------------------------------------------
\* One table built by with_capacity(cap) and driven directly (SpecCap)

InitCap ==
    /\ focus \in FocusIds
    /\ hasher \in Hashers
    /\ none_key = NoVal
    /\ \E cap \in 0..MaxInitCap :
           tables = [e \in EngineIds |-> IF e = focus THEN with_capacity(cap) ELSE new(e)]
    /\ ref = RefEmpty(EngineKeys)
    /\ last = [op |-> "new", ret |-> NoVal]
    /\ fatal = ""
    /\ ops = 0
    /\ hashed = FALSE
    /\ yielded = <<>>
    /\ bytes = <<>>
    /\ keyref = NoneRef
    /\ resized = <<>>
    /\ probe = NoProbe

SpecCap == InitCap /\ [][Next]_vars

----------------------------------------------------------------------------
\* One table driven through long runs of insert and remove (SpecDeep)

DeepKeys == {K1, K2}

DeepApply(op, r, newref) ==
    /\ fatal = "" /\ focus \in FocusIds /\ ops < MaxDeepOps
    /\ tables' = [tables EXCEPT ![focus] = r.t]
    /\ fatal' = r.fatal
    /\ last' = [op |-> op, ret |-> r.ret]
    /\ ref' = IF r.fatal = "" THEN newref ELSE ref
    /\ ops' = ops + 1
    /\ resized' = r.rs
    /\ yielded' = <<>>
    /\ UNCHANGED <<probe, focus, hasher, none_key, hashed, bytes, keyref>>

DeepInsert(k) == DeepApply("insert", insert(focus, T, k, H(k), 1), RefInsert(ref, k, 1))

DeepRemove(k) == DeepApply("remove", remove(focus, T, k, H(k)), RefRemove(ref, k))

\* for (key, value) in map.iter(): the iterator is run to its end
DeepIter ==
    /\ fatal = "" /\ focus \in FocusIds
    /\ yielded' = iter(T)
    /\ last' = [op |-> "iter", ret |-> NoVal]
    /\ resized' = <<>>
    /\ UNCHANGED <<probe, focus, hasher, none_key, tables, ref, fatal, ops, hashed, bytes, keyref>>

NextDeep ==
    \/ \E k \in DeepKeys : DeepInsert(k)
    \/ \E k \in DeepKeys : DeepRemove(k)
    \/ DeepIter

SpecDeep == Init /\ [][NextDeep]_vars

----------------------------------------------------------------------------
\* The KeyRef conversions and the hash of a KeyRef (SpecKey)

\* n bytes of value 1, the p-th of them (if p > 0) replaced by 2
KeyWith(n, p) == [i \in 1..n |-> IF i = p THEN 2 ELSE 1]

KeyInputs == {KeyWith(n, p) : n \in 0..MaxKeyLen, p \in 0..MaxKeyLen}

InitKey ==
    /\ focus = "key"
    /\ hasher \in Hashers
    /\ none_key = NoVal
    /\ tables = [e \in EngineIds |-> new(e)]
    /\ ref = RefEmpty(EngineKeys)
    /\ last = [op |-> "new", ret |-> NoVal]
    /\ fatal = ""
    /\ ops = 0
    /\ hashed = FALSE
    /\ yielded = <<>>
    /\ bytes \in KeyInputs
    /\ keyref = NoneRef
    /\ resized = <<>>
    /\ probe = NoProbe

\* KeyRef::from(&bytes[..])
FromSlice ==
    /\ focus = "key" /\ last.op = "new"
    /\ keyref' = from_slice(bytes)
    /\ last' = [op |-> "from_slice", ret |-> NoVal]
    /\ UNCHANGED <<probe, focus, hasher, none_key, tables, ref, fatal, ops, hashed, yielded, bytes,
                   resized>>

\* KeyRef::from(&bytes) for bytes: [NonZeroU8; N]
FromArray ==
    /\ focus = "key" /\ last.op = "new"
    /\ keyref' = from_array(bytes)
    /\ last' = [op |-> "from_array", ret |-> NoVal]
    /\ UNCHANGED <<probe, focus, hasher, none_key, tables, ref, fatal, ops, hashed, yielded, bytes,
                   resized>>

\* self.hasher.hash_one(keyref)
HashKeyRef ==
    /\ focus = "key" /\ last.op \in {"from_slice", "from_array"}
    /\ last' = [op |-> "hash_one", ret |-> hash_one_keyref(hasher, keyref)]
    /\ hashed' = TRUE
    /\ UNCHANGED <<probe, focus, hasher, none_key, tables, ref, fatal, ops, yielded, bytes, keyref,
                   resized>>

NextKey == FromSlice \/ FromArray \/ HashKeyRef

SpecKey == InitKey /\ [][NextKey]_vars

----------------------------------------------------------------------------
\* A map built by inserts and then consumed (SpecBuild)

BuildInsert(k, v) ==
    /\ fatal = "" /\ focus = "map" /\ ops < MaxBuildOps
    /\ LET r == insert_hashed(none_key, tables, k, H(k), v)
       IN /\ none_key' = r.none_key
          /\ tables' = r.tables
          /\ fatal' = r.fatal
          /\ last' = [op |-> "insert", ret |-> r.ret]
          /\ ref' = IF r.fatal = "" THEN RefInsert(ref, k, v) ELSE ref
          /\ resized' = r.rs
    /\ ops' = ops + 1
    /\ hashed' = TRUE
    /\ UNCHANGED <<probe, focus, hasher, yielded, bytes, keyref>>

\* for (k, v) in map: the map is moved into the iterator and drained
Consume ==
    /\ fatal = "" /\ focus = "map"
    /\ yielded' = map_into_iter(none_key, tables)
    /\ focus' = "consumed"
    /\ last' = [op |-> "into_iter", ret |-> NoVal]
    /\ resized' = <<>>
    /\ UNCHANGED <<probe, hasher, none_key, tables, ref, fatal, ops, hashed, bytes, keyref>>

NextBuild ==
    \/ \E k \in MapKeys, v \in Values : BuildInsert(k, v)
    \/ Consume

SpecBuild == InitMap /\ [][NextBuild]_vars

----------------------------------------------------------------------------
\* The table of common.rs with the allocator of its keys followed (SpecArena)

\* keys of the large class
ArenaKeys == {Ones(25), Ones(30)}

InitArena ==
    /\ focus = "common"
    /\ hasher \in Hashers
    /\ none_key = NoVal
    /\ tables = [e \in EngineIds |-> IF e = "common" THEN new_in(<<>>) ELSE new(e)]
    /\ ref = RefEmpty(ArenaKeys)
    /\ last = [op |-> "new", ret |-> NoVal]
    /\ fatal = ""
    /\ ops = 0
    /\ hashed = FALSE
    /\ yielded = <<>>
    /\ bytes = <<>>
    /\ keyref = NoneRef
    /\ resized = <<>>
    /\ probe = NoProbe

ArenaApply(op, r, newref) ==
    /\ fatal = "" /\ focus = "common" /\ ops < MaxArenaOps
    /\ tables' = [tables EXCEPT ![focus] = r.t]
    /\ fatal' = r.fatal
    /\ last' = [op |-> op, ret |-> r.ret]
    /\ ref' = IF r.fatal = "" THEN newref ELSE ref
    /\ ops' = ops + 1
    /\ resized' = r.rs
    /\ UNCHANGED <<probe, focus, hasher, none_key, hashed, yielded, bytes, keyref>>

ArenaInsert(k, v) ==
    ArenaApply("insert", insert(focus, T, k, H(k), v), RefInsert(ref, k, v))

ArenaTryInsert(k, v) ==
    ArenaApply("try_insert", try_insert(focus, T, k, H(k), v), RefTryInsert(ref, k, v))

ArenaRemove(k) == ArenaApply("remove", remove(focus, T, k, H(k)), RefRemove(ref, k))

ArenaGet(k) == Read("get", get(focus, T, k, H(k)))

NextArena ==
    \/ \E k \in ArenaKeys, v \in Values : ArenaInsert(k, v)
    \/ \E k \in ArenaKeys, v \in Values : ArenaTryInsert(k, v)
    \/ \E k \in ArenaKeys : ArenaRemove(k)
    \/ \E k \in ArenaKeys : ArenaGet(k)

SpecArena == InitArena /\ [][NextArena]_vars

----------------------------------------------------------------------------
\* One table taken through inserts and removes of keys of different home
\* slots, until no Empty slot is left (SpecChurn)

\* under the spread hasher the four keys start their probes at four
\* different slots of a table of capacity 4 or 8; the table driven is the
\* one of the smallest MIN_CAPACITY
ChurnKeys == {<<1>>, <<2>>, <<3>>, <<4>>}

InitChurn ==
    /\ focus = "large"
    /\ hasher = "spread"
    /\ none_key = NoVal
    /\ tables = [e \in EngineIds |-> new(e)]
    /\ ref = RefEmpty(ChurnKeys)
    /\ last = [op |-> "new", ret |-> NoVal, steps |-> 0]
    /\ fatal = ""
    /\ ops = 0
    /\ hashed = FALSE
    /\ yielded = <<>>
    /\ bytes = <<>>
    /\ keyref = NoneRef
    /\ resized = <<>>
    /\ probe = NoProbe

\* a call on the driven table; steps: the slots its first probe looked at
ChurnApply(op, r, newref, steps) ==
    /\ fatal = "" /\ focus \in FocusIds /\ ops < MaxChurnOps
    /\ tables' = [tables EXCEPT ![focus] = r.t]
    /\ fatal' = r.fatal
    /\ last' = [op |-> op, ret |-> r.ret, steps |-> steps]
    /\ ref' = IF r.fatal = "" THEN newref ELSE ref
    /\ ops' = ops + 1
    /\ resized' = r.rs
    /\ UNCHANGED <<probe, focus, hasher, none_key, hashed, yielded, bytes, keyref>>

ChurnInsert(k) ==
    ChurnApply("insert", insert(focus, T, k, H(k), 1), RefInsert(ref, k, 1),
               LookupOrFreeFrom(T.bucket, k, H(k), 0).steps)

ChurnRemove(k) ==
    ChurnApply("remove", remove(focus, T, k, H(k)), RefRemove(ref, k),
               LookupFrom(T.bucket, k, H(k), 0).steps)

ChurnGet(k) ==
    /\ fatal = "" /\ focus \in FocusIds
    /\ last' = [op |-> "get", ret |-> get(focus, T, k, H(k)).ret,
                steps |-> LookupFrom(T.bucket, k, H(k), 0).steps]
    /\ resized' = <<>>
    /\ UNCHANGED <<probe, focus, hasher, none_key, tables, ref, fatal, ops, hashed, yielded, bytes,
                   keyref>>

NextChurn ==
    \/ \E k \in ChurnKeys : ChurnInsert(k)
    \/ \E k \in ChurnKeys : ChurnRemove(k)
    \/ \E k \in ChurnKeys : ChurnGet(k)

SpecChurn == InitChurn /\ [][NextChurn]_vars

----------------------------------------------------------------------------
\* The direct-indexed table of 2-byte keys (small0.rs; SpecArray)

\* the byte order of the target: u16::from_ne_bytes / to_ne_bytes
ArrayIds == {"array_le", "array_be"}

\* 2-byte keys, and the number of slots of data
ArrayKeys == {<<1, 0>>, <<2, 0>>, <<0, 1>>, <<1, 1>>}
ARRAY_SLOTS == 65536
BYTE_RANGE == 256

\* to_index: u16::from_ne_bytes(key.try_into().unwrap()) as usize
to_index(en, key) ==
    IF en = "array_le" THEN key[1] + BYTE_RANGE * key[2]
    ELSE BYTE_RANGE * key[1] + key[2]

\* from_index: (index as u16).to_ne_bytes()
from_index(en, index) ==
    LET w == index % ARRAY_SLOTS
    IN IF en = "array_le" THEN <<w % BYTE_RANGE, w \div BYTE_RANGE>>
       ELSE <<w \div BYTE_RANGE, w % BYTE_RANGE>>

\* the slots of data the run can address; every other one of the 65536
\* slots stays None and is left out of the state
ArraySlots(en) == {to_index(en, k) : k \in ArrayKeys}

\* StringMap::new of small0.rs
array_new(en) == [data |-> [i \in ArraySlots(en) |-> NoVal], len |-> 0]

\* insert raising len on every call, as the hashed tables do
array_insert_counting(en, t, key, value) ==
    LET i == to_index(en, key)
    IN IF i >= ARRAY_SLOTS THEN [t |-> t, ret |-> NoVal]
       ELSE [t |-> [t EXCEPT !.data[i] = value, !.len = t.len + 1], ret |-> t.data[i]]

array_insert(en, t, key, value) ==
    LET i == to_index(en, key)
    IN IF i >= ARRAY_SLOTS THEN [t |-> t, ret |-> NoVal]
       ELSE [t |-> [t EXCEPT !.data[i] = value,
                             !.len = IF t.data[i] = NoVal THEN t.len + 1 ELSE t.len],
             ret |-> t.data[i]]

array_try_insert(en, t, key, value) ==
    LET i == to_index(en, key)
    IN IF i >= ARRAY_SLOTS THEN [t |-> t, ret |-> NoVal]
       ELSE IF t.data[i] # NoVal THEN [t |-> t, ret |-> t.data[i]]
       ELSE [t |-> [t EXCEPT !.data[i] = value, !.len = t.len + 1], ret |-> NoVal]

array_remove(en, t, key) ==
    LET i == to_index(en, key)
    IN IF i >= ARRAY_SLOTS THEN [t |-> t, ret |-> NoVal]
       ELSE [t |-> [t EXCEPT !.data[i] = NoVal,
                             !.len = IF t.data[i] # NoVal THEN t.len - 1 ELSE t.len],
             ret |-> t.data[i]]

\* IntoIter::next run to the end: the scan goes up the indices from index
\* and stops when rem items were given or data ends
RECURSIVE ArrayIntoIterFrom(_, _, _, _)
ArrayIntoIterFrom(en, data, index, rem) ==
    LET ahead == {i \in DOMAIN data : i >= index}
    IN IF rem = 0 \/ ahead = {} THEN <<>>
       ELSE LET i == CHOOSE x \in ahead : \A y \in ahead : x <= y
            IN IF data[i] # NoVal
               THEN <<<<from_index(en, i), data[i]>>>>
                        \o ArrayIntoIterFrom(en, data, i + 1, rem - 1)
               ELSE ArrayIntoIterFrom(en, data, i + 1, rem)

array_into_iter(en, t) == ArrayIntoIterFrom(en, t.data, 0, t.len)

InitArray ==
    /\ focus \in ArrayIds
    /\ hasher \in Hashers
    /\ none_key = NoVal
    /\ tables = [e \in EngineIds \cup {focus} |->
                    IF e = focus THEN array_new(focus) ELSE new(e)]
    /\ ref = RefEmpty(ArrayKeys)
    /\ last = [op |-> "new", ret |-> NoVal]
    /\ fatal = ""
    /\ ops = 0
    /\ hashed = FALSE
    /\ yielded = <<>>
    /\ bytes = <<>>
    /\ keyref = NoneRef
    /\ resized = <<>>
    /\ probe = NoProbe

ArrayApply(op, r, newref) ==
    /\ focus \in ArrayIds /\ last.op # "into_iter" /\ ops < MaxArrayOps
    /\ tables' = [tables EXCEPT ![focus] = r.t]
    /\ last' = [op |-> op, ret |-> r.ret]
    /\ ref' = newref
    /\ ops' = ops + 1
    /\ UNCHANGED <<probe, focus, hasher, none_key, fatal, hashed, yielded, bytes, keyref, resized>>

ArrayInsert(k, v) == ArrayApply("insert", array_insert(focus, T, k, v), RefInsert(ref, k, v))

ArrayTryInsert(k, v) ==
    ArrayApply("try_insert", array_try_insert(focus, T, k, v), RefTryInsert(ref, k, v))

ArrayRemove(k) == ArrayApply("remove", array_remove(focus, T, k), RefRemove(ref, k))

\* for (k, v) in map: the table is moved into the iterator and drained
ArrayConsume ==
    /\ focus \in ArrayIds /\ last.op # "into_iter"
    /\ yielded' = array_into_iter(focus, T)
    /\ last' = [op |-> "into_iter", ret |-> NoVal]
    /\ UNCHANGED <<probe, focus, hasher, none_key, tables, ref, fatal, ops, hashed, bytes, keyref,
                   resized>>

NextArray ==
    \/ \E k \in ArrayKeys, v \in Values : ArrayInsert(k, v)
    \/ \E k \in ArrayKeys, v \in Values : ArrayTryInsert(k, v)
    \/ \E k \in ArrayKeys : ArrayRemove(k)
    \/ ArrayConsume

SpecArray == InitArray /\ [][NextArray]_vars

----------------------------------------------------------------------------
\* The index arithmetic of a probe loop on machine words (SpecWord)

\* overflow checks of the build: on in a debug build, off in a release build
Builds == {"debug", "release"}

\* the width of usize on the target
WordBits == {32, 64}
HASH_BITS == 64

\* a hash, or a word, is given by its distance from one end of its range:
\* [top |-> FALSE, off |-> n] is n, [top |-> TRUE, off |-> n] is 2^w - 1 - n
\* for the width w of the type
WordValues == [top : BOOLEAN, off : 0..MaxProbeCap]

\* base^exp % m
RECURSIVE PowMod(_, _, _)
PowMod(base, exp, m) == IF exp = 0 THEN 1 % m ELSE (base * PowMod(base, exp - 1, m)) % m

\* hash as usize: the low bits of the hash
as_usize(hash, bits) == hash

\* w % m for a word w of the given width
WordMod(w, bits, m) ==
    IF w.top THEN (((PowMod(2, bits, m) - 1 - w.off) % m) + m) % m
    ELSE w.off % m

\* w + i on words of usize: the sum wrapped to the width, and whether it
\* overflowed
WordAdd(w, i) ==
    IF w.top /\ i > w.off
    THEN [value |-> [top |-> FALSE, off |-> i - w.off - 1], overflow |-> TRUE]
    ELSE [value |-> [top |-> w.top, off |-> IF w.top THEN w.off - i ELSE w.off + i],
          overflow |-> FALSE]

InitWord ==
    /\ focus = "probe"
    /\ hasher \in Hashers
    /\ none_key = NoVal
    /\ tables = [e \in EngineIds |-> new(e)]
    /\ ref = RefEmpty(EngineKeys)
    /\ last = [op |-> "new", ret |-> NoVal]
    /\ fatal = ""
    /\ ops = 0
    /\ hashed = FALSE
    /\ yielded = <<>>
    /\ bytes = <<>>
    /\ keyref = NoneRef
    /\ resized = <<>>
    /\ \E b \in Builds, w \in WordBits, h \in WordValues, n \in 1..MaxProbeCap :
           probe = [build |-> b, bits |-> w, hash |-> h, len |-> n, i |-> 0,
                    visited |-> <<>>, wrapped |-> FALSE]

\* one turn of for i in 0..len over slots that neither end the probe:
\* the index ((hash as usize) + i) % len is computed
ProbeStep ==
    /\ focus = "probe" /\ fatal = "" /\ probe.i < probe.len
    /\ LET sum == WordAdd(as_usize(probe.hash, probe.bits), probe.i)
       IN IF sum.overflow /\ probe.build = "debug"
          THEN /\ fatal' = "attempt to add with overflow"
               /\ probe' = probe
          ELSE /\ fatal' = ""
               /\ probe' = [probe EXCEPT
                               !.i = probe.i + 1,
                               !.visited = Append(probe.visited,
                                                  WordMod(sum.value, probe.bits, probe.len)),
                               !.wrapped = probe.wrapped \/ sum.overflow]
    /\ UNCHANGED <<focus, hasher, none_key, tables, ref, last, ops, hashed, yielded, bytes,
                   keyref, resized>>

NextWord == ProbeStep

SpecWord == InitWord /\ [][NextWord]_vars

----------------------------------------------------------------------------
\* State functions used by the properties

DataSlots(t) == {i \in 1..Len(t.bucket) : t.bucket[i].tag = "Data"}

Tombstones(t) == {i \in 1..Len(t.bucket) : t.bucket[i].tag = "Deleted"}

\* some Data slot of t holds key k
Holds(t, k) == \E i \in DataSlots(t) : StoredKey(t.bucket[i]) = k

\* the set of pairs iter() yields
IterPairs(t) == {iter(t)[n] : n \in 1..Len(iter(t))}

capacity(t) == Len(t.bucket)

\* the driven table after the step
Tnext == tables'[focus]

PowersOfTwo == {2 ^ n : n \in 0..10}

\* the position of a class in the order None, S8, S16, S24, Large
Rank(tag) ==
    CASE tag = "None" -> 0 [] tag = "S8" -> 1 [] tag = "S16" -> 2
      [] tag = "S24" -> 3 [] tag = "Large" -> 4

\* items of iter / iter_mut: classes never go down, each key is of its class
InClassOrder(items) ==
    /\ \A m, n \in 1..Len(items) :
           m < n => Rank(items[m].keyref.tag) <= Rank(items[n].keyref.tag)
    /\ \A n \in 1..Len(items) :
           from_slice(KeyRef_key(items[n].keyref)).tag = items[n].keyref.tag

\* pairs of the consuming iterator: the classes of the keys never go down
PairsInClassOrder(pairs) ==
    \A m, n \in 1..Len(pairs) :
        m < n => Rank(from_slice(pairs[m][1]).tag) <= Rank(from_slice(pairs[n][1]).tag)

\* the step is a call of the adaptive map on the empty key
EmptyKeyCall ==
    \/ \E v \in Values : MapInsert(<<>>, v) \/ MapInsertHashed(<<>>, v)
    \/ \E v \in Values : MapTryInsert(<<>>, v) \/ MapTryInsertHashed(<<>>, v)
    \/ MapRemove(<<>>) \/ MapRemoveHashed(<<>>)
    \/ MapGet(<<>>) \/ MapGetHashed(<<>>)
    \/ MapGetMut(<<>>) \/ MapGetMutHashed(<<>>)

\* after an insert of X on the empty key, get of the empty key gives X
EmptyKeyInsertIsRead ==
    \A v \in Values :
        (MapInsert(<<>>, v) \/ MapInsertHashed(<<>>, v))
            => get_hashed(none_key', tables', <<>>, H(<<>>)).ret = v

----------------------------------------------------------------------------
\* Properties

\* C1: after any sequence of insert, try_insert and remove, the set of pairs
\* iter() yields equals the pairs of the reference map, and len() equals the
\* number of pairs in the reference map.
C1_IterAndLenMatchReference ==
    (focus \in FocusIds /\ fatal = "") =>
        /\ IterPairs(T) = RefPairs(ref)
        /\ T.len = Cardinality(RefPairs(ref))

\* C2: at most one Data slot of the backing sequence holds any given key.
C2_OneSlotPerKey ==
    focus \in FocusIds =>
        \A i, j \in DataSlots(T) :
            StoredKey(T.bucket[i]) = StoredKey(T.bucket[j]) => i = j

\* C3: len equals the exact number of Data slots, also after an overwrite.
C3_LenIsDataCount ==
    focus \in FocusIds => T.len = Cardinality(DataSlots(T))

\* C4: insert(k, v) returns what the reference map's insert returns (the value
\* k maps to, or None), and a following get(k) returns v.
C4_InsertReturnsPrevious ==
    (focus \in FocusIds /\ fatal = "") =>
        \A k \in EngineKeys, v \in Values :
            LET r == insert(focus, T, k, H(k), v)
            IN r.fatal = "" =>
                 /\ r.ret = ref[k]
                 /\ get(focus, r.t, k, H(k)).ret = v

\* C5: try_insert(k, v) on an absent key stores v and returns None; on a key
\* mapped to v1 it returns v1 and leaves the table unchanged.
C5_TryInsertKeepsExisting ==
    (focus \in FocusIds /\ fatal = "") =>
        \A k \in EngineKeys, v \in Values :
            LET r == try_insert(focus, T, k, H(k), v)
            IN r.fatal = "" =>
                 IF get(focus, T, k, H(k)).ret = NoVal
                 THEN r.ret = NoVal /\ get(focus, r.t, k, H(k)).ret = v
                 ELSE r.ret = get(focus, T, k, H(k)).ret /\ r.t = T

\* C6: remove(k) of a present key returns the value get(k) would have
\* returned, decreases len by exactly 1, and get(k) returns None afterwards.
C6_RemoveThenAbsent ==
    (focus \in FocusIds /\ fatal = "") =>
        \A k \in EngineKeys :
            get(focus, T, k, H(k)).ret # NoVal =>
                LET r == remove(focus, T, k, H(k))
                IN /\ r.ret = get(focus, T, k, H(k)).ret
                   /\ r.t.len = T.len - 1
                   /\ get(focus, r.t, k, H(k)).ret = NoVal

\* C7: remove(k) and get(k) on a key no Data slot holds return None without
\* a panic, and remove leaves slots, len and capacity unchanged.
C7_AbsentKeyIsNoOp ==
    (focus \in FocusIds /\ fatal = "") =>
        \A k \in EngineKeys :
            ~Holds(T, k) =>
                /\ remove(focus, T, k, H(k))
                      = [t |-> T, ret |-> NoVal, fatal |-> "", rs |-> <<>>]
                /\ get(focus, T, k, H(k)).ret = NoVal
                /\ get(focus, T, k, H(k)).fatal = ""

\* a remove that found nothing has run on a table holding data and tombstones
C7_Witness ==
    /\ focus \in FocusIds /\ fatal = ""
    /\ last = [op |-> "remove", ret |-> NoVal]
    /\ DataSlots(T) # {} /\ Tombstones(T) # {}
    /\ \E k \in EngineKeys : ~Holds(T, k)

\* C8: get, get_hashed and get_mut leave the whole map unchanged: the
\* empty-key slot and every table's backing sequence, len and capacity are
\* the same before and after, whether or not the key is found.
C8_GetLeavesMapUnchanged ==
    [][last'.op \in {"get", "get_hashed", "get_mut", "get_mut_hashed"}
           => (none_key' = none_key /\ tables' = tables)]_vars

\* a get_mut that found its key has run on a map holding a tombstone and data
C8_Witness ==
    /\ focus = "map" /\ fatal = ""
    /\ last.op \in {"get_mut", "get_mut_hashed"} /\ last.ret # NoVal
    /\ \E e \in EngineIds : DataSlots(tables[e]) # {} /\ Tombstones(tables[e]) # {}

\* C9: every key inserted and not removed since is found by get with its hash.
C9_PresentKeyIsFound ==
    (focus \in FocusIds /\ fatal = "") =>
        \A k \in EngineKeys : ref[k] # NoVal => get(focus, T, k, H(k)).ret # NoVal

\* C10: the capacity of the backing sequence is strictly greater than len.
C10_CapacityExceedsLen ==
    focus \in FocusIds => capacity(T) > T.len

\* C11: the capacity of a table is a power of two and at least the minimum of
\* its class (8 for small.rs and common.rs, 4 for large.rs), also after removes.
C11_CapacityPowerOfTwoAboveMin ==
    focus \in FocusIds =>
        /\ capacity(T) \in PowersOfTwo
        /\ capacity(T) >= MIN_CAPACITY(focus)

\* C12: an insert or try_insert that stores an entry doubles the capacity
\* exactly once if the resulting len has len * 3 >= capacity * 2 (capacity
\* before the call), and otherwise leaves it; a try_insert that stores
\* nothing leaves it too.
C12_GrowthRule ==
    [][(focus \in FocusIds /\ last'.op \in {"insert", "try_insert"} /\ fatal' = "")
          => IF Tnext.len = T.len + 1 /\ Tnext.len * 3 >= capacity(T) * 2
             THEN capacity(Tnext) = 2 * capacity(T)
             ELSE capacity(Tnext) = capacity(T)]_vars

\* a try_insert has stored the entry that took a new table over the threshold
C12_Witness ==
    /\ focus \in FocusIds /\ fatal = ""
    /\ last = [op |-> "try_insert", ret |-> NoVal]
    /\ T.len = ops
    /\ (T.len - 1) * 3 < MIN_CAPACITY(focus) * 2
    /\ capacity(T) = 2 * MIN_CAPACITY(focus)

\* C13: a remove that found its key halves the capacity if, after the
\* decrement, len > MIN_CAPACITY and len * 3 <= capacity, and otherwise
\* leaves the capacity unchanged.
C13_ShrinkRule ==
    [][(focus \in FocusIds /\ last'.op = "remove" /\ last'.ret # NoVal /\ fatal' = "")
          => IF Tnext.len > MIN_CAPACITY(focus) /\ Tnext.len * 3 <= capacity(T)
             THEN capacity(Tnext) * 2 = capacity(T)
             ELSE capacity(Tnext) = capacity(T)]_vars

\* C14: from new(), no call panics (no probe cycle is exhausted by an insert
\* or by a re-insertion of resize) and lookup_or_free finds a slot for every
\* key, so the retry branch of large.rs try_insert is never taken.
C14_ProbeNeverExhausted ==
    focus \in FocusIds =>
        /\ fatal = ""
        /\ \A k \in EngineKeys : lookup_or_free(T.bucket, k, H(k)) # NoSlot

\* a try_insert has stored an entry in a grown table that holds a tombstone
C14_Witness ==
    /\ focus \in FocusIds /\ fatal = ""
    /\ last = [op |-> "try_insert", ret |-> NoVal]
    /\ capacity(T) > MIN_CAPACITY(focus)
    /\ Tombstones(T) # {} /\ DataSlots(T) # {}

\* C15: the class of a key depends on its length only (0: None, 1..8: S8,
\* 9..16: S16, 17..24: S24, above: Large), whatever its bytes; the slice and
\* the array conversion agree; key() gives back the bytes converted.
C15_ClassByLength ==
    (focus = "key" /\ last.op \in {"from_slice", "from_array"}) =>
        LET n == Len(bytes)
            class == IF n = 0 THEN "None"
                     ELSE IF n \in 1..8 THEN "S8"
                     ELSE IF n \in 9..16 THEN "S16"
                     ELSE IF n \in 17..24 THEN "S24"
                     ELSE "Large"
        IN /\ keyref.tag = class
           /\ from_slice(bytes).tag = from_array(bytes).tag
           /\ \A b \in KeyInputs : Len(b) = n => from_slice(b).tag = class
           /\ KeyRef_key(keyref) = bytes
           /\ Classify(bytes) =
                  (CASE class = "None" -> "none" [] class = "S8" -> "small8"
                     [] class = "S16" -> "small16" [] class = "S24" -> "small24"
                     [] class = "Large" -> "large")

\* an array of 25 bytes, not all alike, has been converted
C15_Witness ==
    /\ focus = "key" /\ last.op = "from_array"
    /\ Len(bytes) = 25 /\ keyref.tag = "Large"
    /\ \E i \in 1..Len(bytes) : bytes[i] = 2

\* C16: the hash the map computes for a KeyRef is the hash of the key's byte
\* slice, whatever the variant, and is the hash an inline table recomputes
\* from the bytes it stored.
C16_HashOfBytesOnly ==
    (focus = "key" /\ last.op = "hash_one") =>
        /\ last.ret = hash_one(hasher, bytes)
        /\ last.ret = finish(hasher, SliceFeed(bytes))
        /\ \A tag \in {"S8", "S16", "S24", "Large"} :
               hash_one_keyref(hasher, [tag |-> tag, key |-> bytes]) = last.ret
        /\ Classify(bytes) \in SmallIds =>
               ResizeHash(Classify(bytes), NewData(Classify(bytes), bytes, last.ret, 1))
                   = last.ret

\* a key of the S16 class has been hashed by a hasher that reads its bytes
C16_Witness ==
    /\ focus = "key" /\ last.op = "hash_one" /\ hashed
    /\ hasher = "spread" /\ keyref.tag = "S16" /\ last.ret # 0

\* C17: len() of the adaptive map is (1 if the empty key is present) plus the
\* len of its four tables, is_empty() holds exactly when len() is 0, and
\* len() is the number of pairs iter() yields.
C17_MapLenCountsPairs ==
    (focus = "map" /\ fatal = "") =>
        /\ map_len(none_key, tables) =
               (IF none_key # NoVal THEN 1 ELSE 0)
                   + tables["small8"].len + tables["small16"].len
                   + tables["small24"].len + tables["large"].len
        /\ map_is_empty(none_key, tables) <=> (map_len(none_key, tables) = 0)
        /\ map_len(none_key, tables) = Len(map_iter(none_key, tables))

\* C18: iter, iter_mut and the consuming iterator give the empty-key pair
\* first, then the S8, S16, S24 and Large pairs in that order of classes.
C18_IterInClassOrder ==
    (focus = "map" /\ fatal = "") =>
        /\ InClassOrder(map_iter(none_key, tables))
        /\ InClassOrder(map_iter_mut(none_key, tables))
        /\ PairsInClassOrder(map_into_iter(none_key, tables))
        /\ none_key # NoVal =>
               /\ map_iter(none_key, tables)[1] = [keyref |-> NoneRef, value |-> none_key]
               /\ map_iter_mut(none_key, tables)[1] = [keyref |-> NoneRef, value |-> none_key]
               /\ map_into_iter(none_key, tables)[1] = <<(<<>>), none_key>>

\* the map holds the empty key and entries of two other classes
C18_Witness ==
    /\ focus = "map" /\ fatal = ""
    /\ none_key # NoVal
    /\ Cardinality({e \in EngineIds : DataSlots(tables[e]) # {}}) >= 2

C20_ConsumedPairsMatchReference ==
    focus = "consumed" =>
        /\ {yielded[n] : n \in 1..Len(yielded)} = RefPairs(ref)
        /\ \A m, n \in 1..Len(yielded) : yielded[m][1] = yielded[n][1] => m = n

\* a map that holds the empty key, saw a key inserted again and grew a table
\* has been consumed
C20_Witness ==
    /\ focus = "consumed"
    /\ Len(yielded) >= 3 /\ ops > Len(yielded)
    /\ none_key # NoVal
    /\ \E e \in EngineIds : capacity(tables[e]) > MIN_CAPACITY(e)

\* C21: each entry point that takes no hash gives, in every state of the map
\* (those after a table grew included), the result and the map state of its
\* hash-accepting variant called with the hash of the key's bytes under the
\* map's hasher, computed apart from the map.
C21_UnhashedIsHashedWithOwnHash ==
    focus = "map" =>
        \A k \in MapKeys :
            /\ map_get(none_key, tables, k) = get_hashed(none_key, tables, k, H(k))
            /\ map_get_mut(none_key, tables, k) = get_mut_hashed(none_key, tables, k, H(k))
            /\ map_remove(none_key, tables, k) = remove_hashed(none_key, tables, k, H(k))
            /\ \A v \in Values :
                  /\ map_insert(none_key, tables, k, v)
                        = insert_hashed(none_key, tables, k, H(k), v)
                  /\ map_try_insert(none_key, tables, k, v)
                        = try_insert_hashed(none_key, tables, k, H(k), v)

\* get has read a key of the large table after that table grew
C21_Witness ==
    /\ focus = "map" /\ fatal = ""
    /\ last.op = "get" /\ last.ret # NoVal /\ hashed
    /\ capacity(tables["large"]) > LARGE_MIN_CAPACITY
    /\ Tombstones(tables["large"]) = {}

\* C22: a resize of the large table never invokes the hasher (it probes with
\* the hash cached in each entry), so the number of hasher invocations is
\* unchanged by it; a resize of an inline-key table invokes the hasher once
\* for every entry it moves, on the entry's stored bytes.
C22_LargeResizeNeverHashes ==
    \A n \in 1..Len(resized) :
        /\ focus = "large" => resized[n].hashed = 0
        /\ focus \in SmallIds =>
              resized[n].hashed = Cardinality(DataSlots(resized[n].before))

\* an insert has grown a large table that held two entries or more
C22_Witness ==
    /\ focus = "large" /\ fatal = ""
    /\ last.op = "insert" /\ Len(resized) = 1
    /\ Cardinality(DataSlots(resized[1].before)) >= 2
    /\ capacity(resized[1].after) = 2 * capacity(resized[1].before)

\* the chunks a is made of are the first chunks of b
IsPrefix(a, b) == Len(a) <= Len(b) /\ SubSeq(b, 1, Len(a)) = a

\* the chunks the allocator of the driven table has handed out
key_alloc == T.key_alloc

OnlyClass(c) ==
    [none_key |-> IF c = "none" THEN none_key ELSE NoVal,
     tables |-> [e \in EngineIds |-> IF e = c THEN tables[e] ELSE new(e)]]

\* result r of a call on a key of class c leaves the other stores as they
\* are, and is the result iso of the same call on the map that holds the
\* store of class c alone
Isolated(c, r, iso) ==
    /\ \A e \in EngineIds \ {c} : r.tables[e] = tables[e] /\ iso.tables[e] = new(e)
    /\ c # "none" => (r.none_key = none_key /\ r.tables[c] = iso.tables[c])
    /\ c = "none" => r.none_key = iso.none_key
    /\ r.ret = iso.ret /\ r.fatal = iso.fatal /\ r.rs = iso.rs

\* C24: an operation on a key of one size class reads and modifies only that
\* class's store (its table, or the empty-key slot): the other stores are
\* left unchanged and have no bearing on the result.
C24_ClassIsolation ==
    focus = "map" =>
        \A k \in MapKeys :
            LET c == Classify(k)
                o == OnlyClass(c)
            IN /\ Isolated(c, get_hashed(none_key, tables, k, H(k)),
                           get_hashed(o.none_key, o.tables, k, H(k)))
               /\ Isolated(c, get_mut_hashed(none_key, tables, k, H(k)),
                           get_mut_hashed(o.none_key, o.tables, k, H(k)))
               /\ Isolated(c, remove_hashed(none_key, tables, k, H(k)),
                           remove_hashed(o.none_key, o.tables, k, H(k)))
               /\ \A v \in Values :
                     /\ Isolated(c, insert_hashed(none_key, tables, k, H(k), v),
                                 insert_hashed(o.none_key, o.tables, k, H(k), v))
                     /\ Isolated(c, try_insert_hashed(none_key, tables, k, H(k), v),
                                 try_insert_hashed(o.none_key, o.tables, k, H(k), v))

\* a key has been removed from one table of a map that holds the empty key
\* and a key of another class
C24_Witness ==
    /\ focus = "map" /\ fatal = ""
    /\ last.op \in {"remove", "remove_hashed"} /\ last.ret # NoVal
    /\ none_key # NoVal
    /\ \E e \in EngineIds : Tombstones(tables[e]) # {}

\* the (key, value) pair of Data slot i of table t
PairAt(t, i) == <<StoredKey(t.bucket[i]), t.bucket[i].value>>

\* how many Data slots of t hold the pair p
PairCount(t, p) == Cardinality({i \in DataSlots(t) : PairAt(t, i) = p})

\* tables a and b hold the same multiset of pairs
SamePairs(a, b) ==
    \A p \in {PairAt(a, i) : i \in DataSlots(a)} \cup {PairAt(b, i) : i \in DataSlots(b)} :
        PairCount(a, p) = PairCount(b, p)

\* C25: a resize (growth or shrink) preserves the contents: the multiset of
\* (key, value) pairs in Data slots is the same before and after, len is
\* unchanged, and every key kept is found afterwards by get with the hash of
\* its bytes.
C25_ResizePreservesContents ==
    (focus \in FocusIds /\ fatal = "") =>
        \A n \in 1..Len(resized) :
            LET a == resized[n].before
                b == resized[n].after
            IN /\ SamePairs(a, b)
               /\ b.len = a.len
               /\ \A i \in DataSlots(b) :
                     get(focus, b, StoredKey(b.bucket[i]), H(StoredKey(b.bucket[i]))).ret # NoVal

\* C26: a resize happens only inside an insert or try_insert that stored an
\* entry (a doubling) or a remove that took one out (a halving), and is over
\* when the call returns: the capacity changes in no other step, the table
\* the call leaves is the one the resize built, and that table holds no
\* tombstone.
C26_ResizeOnlyInsideMutation ==
    [][(focus \in FocusIds /\ fatal' = "") =>
          /\ capacity(Tnext) # capacity(T) => resized' # <<>>
          /\ resized' # <<>> =>
                /\ Len(resized') = 1
                /\ Tnext = resized'[1].after
                /\ Tombstones(Tnext) = {}
                /\ \/ /\ last'.op \in {"insert", "try_insert"}
                      /\ resized'[1].before.len = T.len + 1
                      /\ capacity(Tnext) = 2 * capacity(T)
                   \/ /\ last'.op = "remove" /\ last'.ret # NoVal
                      /\ resized'[1].before.len = T.len - 1
                      /\ 2 * capacity(Tnext) = capacity(T)]_vars

\* a remove has halved a table that held tombstones
C26_Witness ==
    /\ focus \in FocusIds /\ fatal = ""
    /\ last.op = "remove" /\ Len(resized) = 1
    /\ Tombstones(resized[1].before) # {}
    /\ 2 * capacity(T) = capacity(resized[1].before)
    /\ Tombstones(T) = {}

\* the backing sequence the step leaves, or the one it left before it resized
SameSequenceNext == IF resized' = <<>> THEN Tnext ELSE resized'[1].before

\* a slot holding a before a call op holds b after it, in the same sequence
SlotMove(a, b, op) ==
    /\ a.tag # "Empty" => b.tag # "Empty"
    /\ a.tag = "Empty" => b.tag # "Deleted"
    /\ (a.tag = "Data" /\ b.tag = "Deleted") => op = "remove"
    /\ (a.tag # "Data" /\ b.tag = "Data") => op \in {"insert", "try_insert"}
    /\ (a.tag = "Data" /\ b.tag = "Data" /\ a # b) => op = "insert"

\* C27: within one backing sequence a slot only moves Empty -> Data,
\* Data -> Tombstone, Tombstone -> Data or Data -> Data: a Data or Tombstone
\* slot never becomes Empty again and no Empty slot becomes a Tombstone; a
\* slot becomes a Tombstone by remove alone and Data by insert or try_insert
\* alone, and try_insert overwrites no Data.
C27_SlotLifecycle ==
    [][(focus \in FocusIds) =>
          (/\ capacity(SameSequenceNext) = capacity(T)
           /\ \A i \in 1..capacity(T) :
                 SlotMove(T.bucket[i], SameSequenceNext.bucket[i], last'.op))]_vars

\* an insert has put a new entry into a table that holds entries and tombstones
C27_Witness ==
    /\ focus \in FocusIds /\ fatal = ""
    /\ last.op = "insert" /\ last.ret = NoVal /\ resized = <<>>
    /\ Tombstones(T) # {}
    /\ Cardinality(DataSlots(T)) >= 2

\* slot number n (from 0) of bucket is Empty, a tombstone or Data holding key
Accepts(bucket, n, key) ==
    \/ bucket[n + 1].tag \in {"Empty", "Deleted"}
    \/ bucket[n + 1].tag = "Data" /\ StoredKey(bucket[n + 1]) = key

\* the first slot, going from hash mod capacity by steps of one with
\* wraparound, that accepts key; NoSlot if none does
FirstAccepting(bucket, key, hash) ==
    LET cap == Len(bucket)
        steps == {i \in 0..(cap - 1) : Accepts(bucket, (hash + i) % cap, key)}
    IN IF steps = {} THEN NoSlot
       ELSE (hash + (CHOOSE i \in steps : \A m \in steps : i <= m)) % cap

\* the slots a step changes within the backing sequence
ChangedSlots == {i \in 1..capacity(T) : SameSequenceNext.bucket[i] # T.bucket[i]}

\* C28: insert and try_insert act on the first slot, going from hash mod
\* capacity by steps of one with wraparound, that is Empty, a tombstone or a
\* Data slot holding the key: the entry is written there and nowhere else, so
\* a new entry goes into the earliest tombstone or Empty slot of its path.
C28_InsertActsOnFirstAccepting ==
    [][(focus \in FocusIds /\ last'.op \in {"insert", "try_insert"}) =>
          \A i \in ChangedSlots :
              /\ ChangedSlots = {i}
              /\ SameSequenceNext.bucket[i].tag = "Data"
              /\ i - 1 = FirstAccepting(T.bucket, StoredKey(SameSequenceNext.bucket[i]),
                                        H(StoredKey(SameSequenceNext.bucket[i])))]_vars

\* try_insert has put a new entry into a table that holds a tombstone and an
\* entry away from the slot its hash names
C28_Witness ==
    /\ focus \in FocusIds /\ fatal = ""
    /\ last.op = "try_insert" /\ last.ret = NoVal /\ resized = <<>>
    /\ Tombstones(T) # {}
    /\ \E i \in DataSlots(T) :
          i - 1 # H(StoredKey(T.bucket[i])) % capacity(T)

\* the n-th Data slot of bucket, by increasing index
NthData(bucket, n) ==
    CHOOSE i \in 1..Len(bucket) :
        /\ bucket[i].tag = "Data"
        /\ Cardinality({j \in 1..(i - 1) : bucket[j].tag = "Data"}) = n - 1

\* the pairs of the Data slots of bucket, by increasing index
PairsInSlotOrder(bucket) ==
    [n \in 1..Cardinality({i \in 1..Len(bucket) : bucket[i].tag = "Data"}) |->
        <<StoredKey(bucket[NthData(bucket, n)]), bucket[NthData(bucket, n)].value>>]

\* C29: iter() yields each Data slot once, by increasing slot index, and
\* nothing for Empty slots and tombstones: the sequence is a function of the
\* backing sequence alone, so two tables with the same backing sequence yield
\* the same sequence, and so do two iter() calls with no call between them;
\* iter() leaves the table as it is.
C29_IterInSlotOrder ==
    [][(focus \in FocusIds /\ last'.op = "iter") =>
          /\ yielded' = PairsInSlotOrder(T.bucket)
          /\ tables' = tables
          /\ last.op = "iter" => yielded' = yielded]_vars

\* iter() has run twice in a row on a table that holds two entries, with a
\* tombstone ahead of one of them
C29_Witness ==
    /\ focus \in FocusIds /\ fatal = ""
    /\ last.op = "iter" /\ Len(yielded) >= 2
    /\ \E i \in Tombstones(T), j \in DataSlots(T) : i < j

\* C30: every operation returns: lookup and lookup_or_free look at no more
\* slots than the capacity, also when the backing sequence has no Empty slot
\* left (only Data and tombstones), and a resize is one pass that sets off no
\* further resize.
C30_ProbesEndWithinCapacity ==
    (focus \in FocusIds /\ last.op # "new") =>
        /\ last.steps <= capacity(IF resized = <<>> \/ last.op = "get" THEN T
                                   ELSE resized[1].before)
        /\ Len(resized) <= 1
        /\ \A k \in ChurnKeys :
              /\ LookupFrom(T.bucket, k, H(k), 0).steps <= capacity(T)
              /\ LookupOrFreeFrom(T.bucket, k, H(k), 0).steps <= capacity(T)

\* get has looked for an absent key in a table of entries and tombstones with
\* no Empty slot, and returned none after looking at every slot
C30_Witness ==
    /\ focus \in FocusIds /\ fatal = ""
    /\ last.op = "get" /\ last.ret = NoVal /\ last.steps = capacity(T)
    /\ DataSlots(T) # {} /\ Tombstones(T) # {}
    /\ DataSlots(T) \cup Tombstones(T) = 1..capacity(T)

Occupied(t) == {i \in DOMAIN t.data : t.data[i] # NoVal}

\* C32: on the direct-indexed table of 2-byte keys, after any sequence of
\* insert, try_insert and remove, len is the number of occupied slots, insert
\* returns the value the key had, and the consuming iterator yields exactly
\* the pairs of the reference map driven by the same calls, each key once, by
\* increasing index.
C32_ArrayMatchesReference ==
    [][(focus \in ArrayIds) =>
          (/\ Tnext.len = Cardinality(Occupied(Tnext))
           /\ \A k \in ArrayKeys, v \in Values : ArrayInsert(k, v) => last'.ret = ref[k]
           /\ last'.op = "into_iter" =>
                 /\ {yielded'[n] : n \in 1..Len(yielded')} = RefPairs(ref)
                 /\ \A m, n \in 1..Len(yielded') :
                       m < n => to_index(focus, yielded'[m][1]) < to_index(focus, yielded'[n][1]))]_vars

\* a table that saw a key inserted again and a key removed has been consumed
\* and gave two pairs or more
C32_Witness ==
    /\ focus \in ArrayIds
    /\ last.op = "into_iter" /\ Len(yielded) >= 2
    /\ ops > Len(yielded) + 1

\* C33: an insert over a key that is present leaves len() and the capacity
\* as they were (so inserting one key again and again never resizes), and a
\* remove that takes the last key out leaves is_empty() true.
C33_OverwriteIsSizeNeutral ==
    [][(focus \in FocusIds) =>
          (/\ \A k \in EngineKeys, v \in Values :
                 (Insert(k, v) /\ Holds(T, k)) =>
                     /\ Tnext.len = T.len
                     /\ capacity(Tnext) = capacity(T)
                     /\ resized' = <<>>
           /\ \A k \in EngineKeys :
                 (Remove(k) /\ DataSlots(Tnext) = {}) => is_empty(Tnext))]_vars

\* C34: in every reachable state len is at least the number of Data slots,
\* so the decrement in remove never goes below zero and iter(), which stops
\* after len items, gives every Data slot.
C34_LenCoversDataSlots ==
    (focus \in FocusIds) =>
        /\ T.len >= Cardinality(DataSlots(T))
        /\ T.len >= 0
        /\ Len(iter(T)) = Cardinality(DataSlots(T))

\* entries were removed from a table that still holds entries
C34_Witness ==
    /\ focus \in FocusIds
    /\ last.op = "remove" /\ last.ret # NoVal
    /\ Tombstones(T) # {}
    /\ Cardinality(DataSlots(T)) >= 2

\* the number of probe steps from the home slot of hash to the 0-based slot j
ProbeDistance(hash, j, len) == (j - (hash % len) + len) % len

\* the tags of the slots a probe for hash looks at before it reaches slot j
PathTags(t, hash, j) ==
    {t.bucket[ProbeIndex(hash, i, capacity(t)) + 1].tag :
        i \in 0..(ProbeDistance(hash, j, capacity(t)) - 1)}

\* C35: for every Data slot, no slot on the probe path from the home slot of
\* its key's hash up to the slot itself is Empty: the invariant holds after
\* inserts into Deleted slots, removes and every resize.
C35_NoEmptyBeforeData ==
    (focus \in FocusIds) =>
        \A j \in DataSlots(T) :
            "Empty" \notin PathTags(T, H(StoredKey(T.bucket[j])), j - 1)

\* an entry lies behind a Deleted slot on its probe path, in a table that has
\* been resized
C35_Witness ==
    /\ focus \in FocusIds
    /\ capacity(T) > MIN_CAPACITY(focus)
    /\ \E j \in DataSlots(T) :
          "Deleted" \in PathTags(T, H(StoredKey(T.bucket[j])), j - 1)

\* C36: right after a shrink the growth condition len * 3 >= capacity * 2 is
\* false, and right after a growth the shrink condition is false, so a resize
\* by a remove is not followed at once by a resize by an insert, nor one by
\* an insert by one by a remove.
C36_ResizeHysteresis ==
    [][(focus \in FocusIds /\ fatal' = "") =>
          /\ capacity(Tnext) * 2 = capacity(T) =>
                ~(Tnext.len * 3 >= capacity(Tnext) * 2)
          /\ capacity(Tnext) = capacity(T) * 2 =>
                ~(/\ Tnext.len > MIN_CAPACITY(focus)
                  /\ (Tnext.len * LOAD_FACTOR_N) \div LOAD_FACTOR_D <= capacity(Tnext) \div 2)
          /\ ~(resized # <<>> /\ resized' # <<>> /\ last.op # last'.op)]_vars

\* C37: with_capacity(cap) gives, for every cap (0 and values below
\* MIN_CAPACITY included), an empty table of at least MIN_CAPACITY slots, and
\* the first insert or try_insert on it stores its entry without taking a
\* fatal path.
C37_WithCapacityIsUsable ==
    (focus \in FocusIds) =>
        /\ ops = 0 =>
              /\ T.len = 0 /\ DataSlots(T) = {}
              /\ capacity(T) >= MIN_CAPACITY(focus)
        /\ (ops = 1 /\ last.op \in {"insert", "try_insert"}) =>
              /\ fatal = ""
              /\ Cardinality(DataSlots(T)) = 1

\* C38: on the inline table keys are told apart by stored length and bytes:
\* [1] and [1, 0, .., 0] of length N, once both inserted and neither removed,
\* are both stored, each with its own value, whatever calls and resizes came
\* in between.
C38_TrailingZeroKeysStayDistinct ==
    (focus \in SmallIds /\ fatal = "" /\ ref[K1] # NoVal /\ ref[K1Z] # NoVal) =>
        \A k \in {K1, K1Z} :
            \E i \in DataSlots(T) :
                StoredKey(T.bucket[i]) = k /\ T.bucket[i].value = ref[k]

\* C39: for every 64-bit hash, those within capacity of 2^64 - 1 included,
\* computing (hash + i) mod capacity for i in 0..capacity never overflows the
\* machine word, and the indices visited are (hash mod capacity + i) mod
\* capacity.
C39_ProbeIndexNeverOverflows ==
    (focus = "probe") =>
        /\ fatal = ""
        /\ ~probe.wrapped
        /\ \A n \in 1..Len(probe.visited) :
              probe.visited[n] =
                  (WordMod(probe.hash, HASH_BITS, probe.len) + (n - 1)) % probe.len

====
